---- MODULE Spec2Model ----
(***************************************************************************)
(* Model of Arena<Capacity> (src/arena_allocator.h): a fixed-capacity bump *)
(* allocator.  allocate<T> is modelled line by line (the capacity check,   *)
(* the two advances of m_used, the DEBUG ledger push_back and the          *)
(* placement-new constructor call are separate steps), so that the states  *)
(* inside a call, and the calls of allocate and reset made from inside T's *)
(* constructor, are states of the model.                                   *)
(*                                                                         *)
(* The same sequence of calls is applied in lockstep to four arenas at the *)
(* same buffer address: a -DDEBUG build and a release build (arena), and,  *)
(* for each, a twin that is constructed anew wherever the first is reset   *)
(* (fresh).  The types T are those the allocator's stated precondition     *)
(* admits: alignof(T) <= alignof(max_align_t), the alignment of m_buffer.  *)
(*                                                                         *)
(* display_map and memstat change nothing; they are operators giving what  *)
(* is printed for an arena.  script follows the caller through the         *)
(* concrete scenario of the specification (section 8).                     *)
(***************************************************************************)
EXTENDS Integers, Sequences, FiniteSets

\* ---------------------------------------------------------------- bounds

\* Most records the DEBUG ledger may hold before further successful
\* allocations are cut off (the code's vector grows without bound).
MaxLedger == 3

\* Deepest nesting of allocate calls (a call made from T's constructor).
MaxDepth == 2

\* ------------------------------------------------------- program constants

\* alignof(max_align_t), the alignment of m_buffer (16 on x86-64 and AArch64).
MaxAlign == 16

\* The addresses of m_buffer explored: alignas(std::max_align_t) makes the
\* address a multiple of MaxAlign, and allocate uses it only modulo
\* alignof(T), which divides MaxAlign.
BufferAddresses == {MaxAlign}

\* The Capacity template arguments explored.
Capacities == {20, 64}

\* The types T explored: typeid(T).name(), sizeof(T), alignof(T).
Types ==
    { [name |-> "char",    size |-> 1,  align |-> 1],
      [name |-> "int",     size |-> 4,  align |-> 4],
      [name |-> "double",  size |-> 8,  align |-> 8],
      [name |-> "ldouble", size |-> 16, align |-> 16],
      [name |-> "char50",  size |-> 50, align |-> 1] }

Builds == {"debug", "release"}

\* Whether DEBUG is defined in a build.
DEBUG(b) == b = "debug"

VARIABLES
    Capacity,   \* the template argument of the arenas
    m_buffer,   \* the address of m_buffer (the same in all four arenas)
    arena,      \* arena[b]: the arena of build b, reset by reset()
    fresh,      \* fresh[b]: its twin, constructed anew instead of reset
    script      \* how many calls of the concrete scenario the caller has
                \* made, -1 once the calls made are not the scenario's

vars == <<Capacity, m_buffer, arena, fresh, script>>

\* ------------------------------------------------------------ the arena
\* An arena is a record
\*   m_used        the member m_used
\*   m_allocations the member m_allocations (DEBUG; empty in a release build)
\*   stack         the allocate calls in progress, innermost last; a frame
\*                 holds T, the locals padding and memory (as an offset into
\*                 m_buffer, -1 before line 47), the line it is at,
\*                 whether it is the first call since construction or reset,
\*                 m_used as it was when the call was made, and whether
\*                 reset() has been called since the call was made (stale)
\*   ret           the outcome of the call that completed last
\*   live          the ranges returned by the successful calls made since
\*                 construction or the last reset, in order of return
\*   called        whether allocate has been called since construction or
\*                 the last reset

Ret(kind, name, offset) == [kind |-> kind, name |-> name, offset |-> offset]

Top(a) == a.stack[Len(a.stack)]

Pop(s) == SubSeq(s, 1, Len(s) - 1)

SetTop(a, f) == [a EXCEPT !.stack[Len(a.stack)] = f]

\* The padding without the subtraction from the alignment.
PaddingRemainder(alignment, cur_addr) == cur_addr % alignment

\* The padding without the outer reduction modulo the alignment.
PaddingUnreduced(alignment, cur_addr) == alignment - (cur_addr % alignment)

\* line 41
Padding(alignment, cur_addr) == (alignment - (cur_addr % alignment)) % alignment

\* The check without the padding.
OutOfCapacityNoPadding(used, padding, size, cap) == used + size > cap

\* The check with >= for >.
OutOfCapacityGeq(used, padding, size, cap) == used + padding + size >= cap

\* line 43
OutOfCapacity(used, padding, size, cap) == used + padding + size > cap

\* lines 26, 28: Arena()
NewArena ==
    [m_used |-> 0, m_allocations |-> <<>>, stack |-> <<>>,
     ret |-> Ret("new", "-", -1), live |-> <<>>, called |-> FALSE]

\* The padding added to m_used before the check, and left there on failure.
AllocateEntryPadFirst(a, T, buf, cap) ==
    LET padding == Padding(T.align, buf + a.m_used)
        padded  == [a EXCEPT !.m_used = @ + padding]
    IN  IF padded.m_used + T.size > cap
        THEN [padded EXCEPT !.ret = Ret("null", T.name, -1), !.called = TRUE]
        ELSE [a EXCEPT !.stack = Append(@, [T |-> T, padding |-> padding,
                                            memory |-> -1, pc |-> "L46",
                                            first |-> ~a.called,
                                            used_before |-> a.m_used,
                                            stale |-> FALSE]),
                       !.ret = Ret("none", "-", -1),
                       !.called = TRUE]

\* lines 39-44: the locals and the capacity check; nullptr, or on to line 46
AllocateEntry(a, T, buf, cap) ==
    LET alignment == T.align
        cur_addr  == buf + a.m_used
        padding   == Padding(alignment, cur_addr)
    IN  IF OutOfCapacity(a.m_used, padding, T.size, cap)
        THEN [a EXCEPT !.ret = Ret("null", T.name, -1), !.called = TRUE]
        ELSE [a EXCEPT !.stack = Append(@, [T |-> T, padding |-> padding,
                                            memory |-> -1, pc |-> "L46",
                                            first |-> ~a.called,
                                            used_before |-> a.m_used,
                                            stale |-> FALSE]),
                       !.ret = Ret("none", "-", -1),
                       !.called = TRUE]

\* line 46: m_used += padding
AddPadding(a) ==
    LET f == Top(a)
    IN  SetTop([a EXCEPT !.m_used = @ + f.padding], [f EXCEPT !.pc = "L47"])

\* m_used advanced by sizeof(T) only after the constructor: not at line 48.
TakeMemoryLate(a) ==
    LET f == Top(a)
    IN  SetTop(a, [f EXCEPT !.memory = a.m_used, !.pc = "L51"])

\* m_used advanced by alignof(T) for sizeof(T).
TakeMemoryAlignof(a) ==
    LET f == Top(a)
    IN  SetTop([a EXCEPT !.m_used = @ + f.T.align],
               [f EXCEPT !.memory = a.m_used, !.pc = "L51"])

\* m_used assigned sizeof(T) for advanced by it.
TakeMemoryAssign(a) ==
    LET f == Top(a)
    IN  SetTop([a EXCEPT !.m_used = f.T.size],
               [f EXCEPT !.memory = a.m_used, !.pc = "L51"])

\* lines 47-48: memory = &m_buffer[m_used]; m_used += sizeof(T)
TakeMemory(a) ==
    LET f == Top(a)
    IN  SetTop([a EXCEPT !.m_used = @ + f.T.size],
               [f EXCEPT !.memory = a.m_used, !.pc = "L51"])

\* A DEBUG build that refuses the allocation once the ledger holds two records.
RecordAllocationRefusing(a, b, buf) ==
    LET f == Top(a)
        g == [f EXCEPT !.pc = "L55"]
    IN  IF DEBUG(b)
        THEN IF Len(a.m_allocations) >= 2
             THEN [a EXCEPT !.m_used = f.memory - f.padding, !.stack = Pop(@),
                            !.ret = Ret("null", f.T.name, -1)]
             ELSE SetTop([a EXCEPT !.m_allocations =
                        Append(@, [address |-> buf + f.memory, size |-> f.T.size,
                                   type_name |-> f.T.name])], g)
        ELSE SetTop(a, g)

\* lines 50-52: m_allocations.push_back(...) under DEBUG
RecordAllocation(a, b, buf) ==
    LET f == Top(a)
        g == [f EXCEPT !.pc = "L55"]
    IN  IF DEBUG(b)
        THEN SetTop([a EXCEPT !.m_allocations =
                        Append(@, [address |-> buf + f.memory, size |-> f.T.size,
                                   type_name |-> f.T.name])], g)
        ELSE SetTop(a, g)

\* line 55: T's constructor completes and allocate returns the object
ConstructReturn(a) ==
    LET f == Top(a)
    IN  [a EXCEPT !.stack = Pop(@),
                  !.ret = Ret("ptr", f.T.name, f.memory),
                  !.live = IF f.stale
                           THEN @
                           ELSE Append(@, [offset |-> f.memory, T |-> f.T])]

\* line 55: T's constructor throws and the exception leaves allocate
ConstructThrow(a) ==
    LET f == Top(a)
    IN  [a EXCEPT !.stack = Pop(@), !.ret = Ret("exc", f.T.name, -1)]

\* The calls in progress, marked as made before a reset.
Stale(stack) == [i \in 1..Len(stack) |-> [stack[i] EXCEPT !.stale = TRUE]]

\* A reset that leaves m_used as it is.
ResetKeepUsed(a) ==
    [a EXCEPT !.ret = Ret("reset", "-", -1), !.live = <<>>,
              !.stack = Stale(@), !.called = FALSE]

\* lines 58-60: reset(); the calls in progress (reset() called from a
\* constructor) were made before it
Reset(a) ==
    [a EXCEPT !.m_used = 0, !.ret = Ret("reset", "-", -1), !.live = <<>>,
              !.stack = Stale(@), !.called = FALSE]

\* The caller's code runs (and can call reset, display_map and memstat)
\* between calls and inside T's constructor at line 55, not at lines 39-52.
Observable(a) == a.stack = <<>> \/ Top(a).pc = "L55"

\* ------------------------------------------------------------ reporting

\* A row of the memory map: the offset printed after "+ ", the Type column and
\* the Size column.
Row(offset, type, size) == [offset |-> offset, type |-> type, size |-> size]

\* lines 74-93: the rows of the records allocs[i..], last_offset as it is there
RECURSIVE LedgerRows(_, _, _, _)
LedgerRows(allocs, i, last_offset, buf) ==
    IF i > Len(allocs)
    THEN <<>>
    ELSE LET alloc          == allocs[i]
             current_offset == alloc.address - buf
             padding        == IF current_offset > last_offset
                               THEN <<Row(last_offset, "(Padding)",
                                          current_offset - last_offset)>>
                               ELSE <<>>
         IN  padding \o <<Row(current_offset, alloc.type_name, alloc.size)>>
                 \o LedgerRows(allocs, i + 1, current_offset + alloc.size, buf)

\* lines 63-103: the region rows display_map prints, in order
display_map(a, b, buf, cap) ==
    (IF DEBUG(b) THEN LedgerRows(a.m_allocations, 1, 0, buf) ELSE <<>>)
        \o (IF a.m_used < cap
            THEN <<Row(a.m_used, "(Free Space)", cap - a.m_used)>>
            ELSE <<>>)

\* line 114
bar_width == 20

\* An unsigned int (32 bits) as two 16-bit halves.
Half == 65536

U32(n) == [hi |-> (n \div Half) % Half, lo |-> n % Half]

\* Unsigned subtraction, modulo 2^32.
SubU32(x, y) ==
    [hi |-> (x.hi - y.hi - (IF x.lo < y.lo THEN 1 ELSE 0)) % Half,
     lo |-> (x.lo - y.lo) % Half]

\* The filled width rounded to the nearest character instead of truncated.
filled_width_rounded(used, cap) == U32((2 * used * bar_width + cap) \div (2 * cap))

\* lines 106-107, 115: static_cast<int>((used / capacity) * bar_width) in
\* double arithmetic; for 0 <= used <= capacity <= 3000 the IEEE-754 product
\* truncates to the integer quotient of used * bar_width by capacity.
filled_width(used, cap) == U32((used * bar_width) \div cap)

\* line 116
empty_width(filled) == SubU32(U32(bar_width), filled)

\* lines 105-123: the bar memstat prints: '-' filled_width times, then ' '
\* empty_width times
memstat(a, cap) ==
    LET filled == filled_width(a.m_used, cap)
    IN  [dashes |-> filled, spaces |-> empty_width(filled)]

\* ------------------------------------------------------------- the calls

AtLine(a, l) == Len(a.stack) > 0 /\ Top(a).pc = l

\* allocate may be called by the owner of the arena, or from the constructor
\* of an object being allocated.
CanCall(a) == Len(a.stack) = 0 \/ (AtLine(a, "L55") /\ Len(a.stack) < MaxDepth)

\* The four arenas the calls are applied to.
AllArenas == {arena[b] : b \in Builds} \cup {fresh[b] : b \in Builds}

\* The calls of the concrete scenario, in order: allocate<T> by the name of T,
\* or reset.
Scenario == <<"int", "double", "char50", "reset", "int">>

\* The scenario's position after a call; top: the call is made by the owner of
\* the arena, not from a constructor.
Scripted(s, call, top) ==
    IF s \in 0..(Len(Scenario) - 1) /\ top /\ Scenario[s + 1] = call
    THEN s + 1
    ELSE -1

Init ==
    /\ script = 0
    /\ Capacity \in Capacities
    /\ m_buffer \in BufferAddresses
    /\ arena = [b \in Builds |-> NewArena]
    /\ fresh = [b \in Builds |-> NewArena]

Allocate(T) ==
    /\ \A a \in AllArenas : CanCall(a)
    /\ \/ Len(arena["debug"].m_allocations) < MaxLedger
       \/ AllocateEntry(arena["debug"], T, m_buffer, Capacity).ret.kind = "null"
    /\ arena' = [b \in Builds |-> AllocateEntry(arena[b], T, m_buffer, Capacity)]
    /\ fresh' = [b \in Builds |-> AllocateEntry(fresh[b], T, m_buffer, Capacity)]
    /\ script' = Scripted(script, T.name, arena["release"].stack = <<>>)
    /\ UNCHANGED <<Capacity, m_buffer>>

Line46 ==
    /\ \A a \in AllArenas : AtLine(a, "L46")
    /\ arena' = [b \in Builds |-> AddPadding(arena[b])]
    /\ fresh' = [b \in Builds |-> AddPadding(fresh[b])]
    /\ UNCHANGED <<Capacity, m_buffer, script>>

Line47 ==
    /\ \A a \in AllArenas : AtLine(a, "L47")
    /\ arena' = [b \in Builds |-> TakeMemory(arena[b])]
    /\ fresh' = [b \in Builds |-> TakeMemory(fresh[b])]
    /\ UNCHANGED <<Capacity, m_buffer, script>>

Line51 ==
    /\ \A a \in AllArenas : AtLine(a, "L51")
    /\ arena' = [b \in Builds |-> RecordAllocation(arena[b], b, m_buffer)]
    /\ fresh' = [b \in Builds |-> RecordAllocation(fresh[b], b, m_buffer)]
    /\ UNCHANGED <<Capacity, m_buffer, script>>

Line55Return ==
    /\ \A a \in AllArenas : AtLine(a, "L55")
    /\ arena' = [b \in Builds |-> ConstructReturn(arena[b])]
    /\ fresh' = [b \in Builds |-> ConstructReturn(fresh[b])]
    /\ UNCHANGED <<Capacity, m_buffer, script>>

Line55Throw ==
    /\ \A a \in AllArenas : AtLine(a, "L55")
    /\ arena' = [b \in Builds |-> ConstructThrow(arena[b])]
    /\ fresh' = [b \in Builds |-> ConstructThrow(fresh[b])]
    /\ script' = -1
    /\ UNCHANGED <<Capacity, m_buffer>>

\* reset() on the arenas, called by their owner or from the constructor of an
\* object being allocated; their twins are replaced by new arenas, the calls
\* in progress going on in them.
ResetCall ==
    /\ \A a \in AllArenas : Len(a.stack) = 0 \/ AtLine(a, "L55")
    /\ arena' = [b \in Builds |-> Reset(arena[b])]
    /\ fresh' = [b \in Builds |-> [NewArena EXCEPT !.stack = Stale(fresh[b].stack)]]
    /\ script' = Scripted(script, "reset", arena["release"].stack = <<>>)
    /\ UNCHANGED <<Capacity, m_buffer>>

Next ==
    \/ \E T \in Types : Allocate(T)
    \/ Line46
    \/ Line47
    \/ Line51
    \/ Line55Return
    \/ Line55Throw
    \/ ResetCall

Spec == Init /\ [][Next]_vars

\* ------------------------------------------------------------ the claims

\* The smallest p >= 0 with addr + p a multiple of alignment.
MinPad(alignment, addr) ==
    CHOOSE p \in 0..(alignment - 1) : (addr + p) % alignment = 0

\* The frames of an arena whose local memory has been set (line 47 is past).
Placed(a) == {i \in 1..Len(a.stack) : a.stack[i].memory # -1}

\* C1: in every state, the states inside allocate included, 0 <= m_used <= Capacity.
C1_UsedWithinCapacity ==
    \A b \in Builds : 0 <= arena[b].m_used /\ arena[b].m_used <= Capacity

\* A call is between its two advances of m_used, the padding added, and the
\* object will end exactly at Capacity.
C1_Witness ==
    \E b \in Builds :
        /\ AtLine(arena[b], "L47")
        /\ Top(arena[b]).padding > 0
        /\ arena[b].m_used + Top(arena[b]).T.size = Capacity

\* The range [offset, offset + sizeof(T)) of frame f shares no byte with the
\* ranges in live.
DisjointFromLive(f, live) ==
    \A i \in 1..Len(live) :
        \/ f.memory + f.T.size <= live[i].offset
        \/ live[i].offset + live[i].T.size <= f.memory

\* C2 as stated: the range every successful call returns lies within
\* [0, Capacity) and is disjoint from the ranges of the successful allocations
\* made since the most recent reset.
C2_ReturnedRangeDisjoint ==
    [][Line55Return =>
          \A b \in Builds :
              LET f == Top(arena[b])
              IN  /\ 0 <= f.memory
                  /\ f.memory + f.T.size <= Capacity
                  /\ DisjointFromLive(f, arena[b].live)]_vars

\* C2, amended: the range every successful call returns lies within
\* [0, Capacity); it is disjoint from the ranges of the successful allocations
\* made since the most recent reset when the call itself was made since that
\* reset (reset was not called from its constructor); and the ranges returned
\* by the calls made since the most recent reset are pairwise disjoint.
C2_LiveRangesDisjoint ==
    /\ [](\A b \in Builds :
            LET live == arena[b].live
            IN  /\ \A i \in 1..Len(live) :
                     /\ 0 <= live[i].offset
                     /\ live[i].offset + live[i].T.size <= Capacity
                /\ \A i, j \in 1..Len(live) :
                     i # j => \/ live[i].offset + live[i].T.size <= live[j].offset
                              \/ live[j].offset + live[j].T.size <= live[i].offset)
    /\ [][Line55Return =>
             \A b \in Builds :
                 LET f == Top(arena[b])
                 IN  /\ 0 <= f.memory
                     /\ f.memory + f.T.size <= Capacity
                     /\ ~f.stale => DisjointFromLive(f, arena[b].live)]_vars

\* Two objects of different types are live after an earlier generation was reset.
C2_Witness ==
    \E b \in Builds :
        /\ Len(arena[b].live) = 2
        /\ arena[b].live[1].T # arena[b].live[2].T
        /\ Len(arena["debug"].m_allocations) > 2

\* C3: every object placed (in a call in progress or returned) is at an address,
\* and at an offset, that is a multiple of alignof(T).
C3_Aligned ==
    \A b \in Builds :
        LET a == arena[b]
        IN  /\ \A i \in Placed(a) :
                 /\ (m_buffer + a.stack[i].memory) % a.stack[i].T.align = 0
                 /\ a.stack[i].memory % a.stack[i].T.align = 0
            /\ \A i \in 1..Len(a.live) :
                 /\ (m_buffer + a.live[i].offset) % a.live[i].T.align = 0
                 /\ a.live[i].offset % a.live[i].T.align = 0

\* An object with an alignment above 1 was returned after padding was skipped.
C3_Witness ==
    \E b \in Builds :
        \E i \in 2..Len(arena[b].live) :
            /\ arena[b].live[i].T.align > 1
            /\ arena[b].live[i].offset >
                   arena[b].live[i-1].offset + arena[b].live[i-1].T.size

\* C4: a call of allocate that returns nullptr leaves m_used and the ledger as
\* they were.
C4_FailureLeavesUsed ==
    [][\A T \in Types : Allocate(T) =>
          \A b \in Builds :
              arena'[b].ret.kind = "null" =>
                  /\ arena'[b].m_used = arena[b].m_used
                  /\ arena'[b].m_allocations = arena[b].m_allocations]_vars

\* A call failed where the cursor was not aligned for T: padding was computed.
C4_Witness ==
    \E b \in Builds : \E T \in Types :
        /\ arena[b].ret = Ret("null", T.name, -1)
        /\ arena[b].m_used % T.align # 0
        /\ arena["debug"].m_allocations # <<>>

\* m_used plus the least padding that aligns the cursor plus sizeof(T) exceeds
\* Capacity.
Over(a, T) == a.m_used + MinPad(T.align, m_buffer + a.m_used) + T.size > Capacity

\* The capacity check in a step of arena b: a call goes on to line 46 (a frame
\* is pushed, nothing returned yet) only when it is not over capacity, and
\* nullptr becomes the outcome only of a call of a type that is over capacity,
\* which leaves the stack and m_used as they are.
CheckDecides(b) ==
    /\ Len(arena'[b].stack) > Len(arena[b].stack) =>
           /\ arena'[b].stack = Append(arena[b].stack, Top(arena'[b]))
           /\ arena'[b].ret.kind = "none"
           /\ ~Over(arena[b], Top(arena'[b]).T)
    /\ arena'[b].ret.kind = "null" =>
           /\ arena'[b].stack = arena[b].stack
           /\ arena'[b].m_used = arena[b].m_used
           /\ \E T \in Types : /\ arena'[b].ret.name = T.name
                               /\ Over(arena[b], T)

\* C5 as stated: allocate<T> returns nullptr exactly when m_used plus the least
\* padding that aligns the cursor plus sizeof(T) exceeds Capacity, and every
\* call that passes the check ends by returning an object inside the buffer:
\* nullptr is the only failure outcome.
C5_OnlyOutOfCapacity ==
    [][\A b \in Builds :
          /\ CheckDecides(b)
          /\ Len(arena'[b].stack) < Len(arena[b].stack) =>
                 /\ arena'[b].stack = Pop(arena[b].stack)
                 /\ arena'[b].ret.kind = "ptr"
                 /\ arena'[b].ret.offset \in 0..(Capacity - 1)]_vars

\* C5, amended: allocate<T> returns nullptr exactly when m_used plus the least
\* padding that aligns the cursor plus sizeof(T) exceeds Capacity; a call that
\* passes the check runs T's constructor and ends either by returning an
\* object inside the buffer, when the constructor returns, or with the
\* exception the constructor throws.
C5_NullIffOutOfCapacity ==
    [][\A b \in Builds :
          /\ CheckDecides(b)
          /\ Len(arena'[b].stack) < Len(arena[b].stack) =>
                 /\ arena'[b].stack = Pop(arena[b].stack)
                 /\ \/ /\ arena'[b].ret.kind = "ptr"
                       /\ arena'[b].ret.offset \in 0..(Capacity - 1)
                    \/ arena'[b].ret = Ret("exc", Top(arena[b]).T.name, -1)]_vars

\* A call that needed padding and ended exactly at Capacity returned an object.
C5_Witness ==
    \E b \in Builds : \E T \in Types :
        /\ arena[b].ret.kind = "ptr"
        /\ arena[b].ret.name = T.name
        /\ arena[b].ret.offset + T.size = Capacity
        /\ \E i \in 1..Len(arena[b].live) :
               LET r == arena[b].live[i]
               IN  r.offset + r.T.size < arena[b].ret.offset

\* C6: no step of allocate, of a call that succeeds or fails, makes m_used
\* smaller; only reset does.
C6_UsedMonotonic ==
    [][ResetCall \/ \A b \in Builds : arena'[b].m_used >= arena[b].m_used]_vars

\* m_used has grown over two returned objects and a failed call has left it.
C6_Witness ==
    \E b \in Builds :
        /\ arena[b].ret.kind = "null"
        /\ Len(arena[b].live) >= 2
        /\ arena[b].m_used > 0

\* C7: a call whose padding and size bring m_used to exactly Capacity succeeds
\* and, no reset called meanwhile, leaves m_used = Capacity when it returns;
\* with m_used = Capacity every call of allocate fails.
C7_ExhaustionBoundary ==
    [][/\ \A T \in Types : Allocate(T) =>
            \A b \in Builds :
                LET a == arena[b]
                    end == a.m_used + MinPad(T.align, m_buffer + a.m_used) + T.size
                IN  /\ end = Capacity => arena'[b].ret.kind # "null"
                    /\ a.m_used = Capacity => arena'[b].ret.kind = "null"
       /\ Line55Return =>
            \A b \in Builds :
                (~Top(arena[b]).stale
                 /\ Top(arena[b]).memory + Top(arena[b]).T.size = Capacity)
                    => arena'[b].m_used = Capacity]_vars

\* The arena was filled to exactly Capacity by several objects and a further
\* call has failed.
C7_Witness ==
    \E b \in Builds :
        /\ arena[b].m_used = Capacity
        /\ arena[b].ret.kind = "null"
        /\ Len(arena[b].live) >= 2

\* What an arena shows of its calls: m_used, the calls in progress, the ranges
\* returned and the outcome of the last call (none after construction or reset).
View(a) ==
    [m_used |-> a.m_used, stack |-> a.stack, live |-> a.live,
     ret |-> IF a.ret.kind \in {"new", "reset"} THEN Ret("none", "-", -1) ELSE a.ret]

\* C8: reset sets m_used to 0, every later call does on the arena what it does
\* on an arena constructed in place of the reset, and the first call after a
\* reset places its object at offset 0.
C8_ResetLikeFresh ==
    \A b \in Builds :
        /\ arena[b].ret.kind = "reset" => arena[b].m_used = 0
        /\ View(arena[b]) = View(fresh[b])
        /\ \A i \in Placed(arena[b]) :
             arena[b].stack[i].first => arena[b].stack[i].memory = 0

\* After a reset of a used arena the first call has returned an object at 0.
C8_Witness ==
    /\ arena["debug"].ret.kind = "ptr"
    /\ arena["debug"].ret.offset = 0
    /\ Len(arena["debug"].live) = 1
    /\ Len(arena["debug"].m_allocations) > Len(fresh["debug"].m_allocations)

\* C9: right after reset the ledger is empty.
C9_ResetClearsLedger ==
    \A b \in Builds :
        arena[b].ret.kind = "reset" => arena[b].m_allocations = <<>>

\* C10: the DEBUG build and the release build agree, after every step, on
\* m_used, on the calls in progress with their padding and offsets, on the
\* ranges returned and on the outcome of the last call.
C10_LedgerDoesNotDecide ==
    /\ arena["debug"].m_used = arena["release"].m_used
    /\ arena["debug"].stack = arena["release"].stack
    /\ arena["debug"].live = arena["release"].live
    /\ arena["debug"].ret = arena["release"].ret

\* The ledger of the DEBUG build holds records from before a reset, the release
\* build has none, and a call has returned an object past offset 0.
C10_Witness ==
    /\ Len(arena["debug"].m_allocations) > Len(arena["debug"].live) + 1
    /\ arena["release"].m_allocations = <<>>
    /\ arena["release"].ret.kind = "ptr"
    /\ arena["release"].ret.offset > 0

\* Whether the call of allocate that is innermost made no allocation from T's
\* constructor: the last record of the DEBUG ledger is its own.
NoneFromConstructor ==
    LET a == arena["debug"]
    IN  /\ Len(a.m_allocations) > 0
        /\ a.m_allocations[Len(a.m_allocations)].address = m_buffer + Top(a).memory

\* C11 as stated: a call that returns an object has applied the least padding p
\* that aligns the cursor, has placed the object at used_before + p, and
\* leaves m_used = used_before + p + sizeof(T).
C11_UsedAfterExact ==
    [][Line55Return =>
          \A b \in Builds :
              LET f == Top(arena[b])
                  p == MinPad(f.T.align, m_buffer + f.used_before)
              IN  /\ f.padding = p
                  /\ arena'[b].ret.offset = f.used_before + p
                  /\ arena'[b].m_used = f.used_before + p + f.T.size]_vars

\* C11, amended: the padding p is the least that aligns the cursor (0 <= p <
\* alignof(T), 0 when it is aligned), the object is at used_before + p, and
\* m_used = used_before + p + sizeof(T) when T's constructor is entered; when
\* the call returns, its constructor not having called reset, m_used is at
\* least that, and exactly that when the constructor made no allocation from
\* the arena either.
C11_PaddingOffsetUsed ==
    [][/\ Line51 =>
            \A b \in Builds :
                LET f == Top(arena[b])
                    p == MinPad(f.T.align, m_buffer + f.used_before)
                IN  /\ f.padding = p
                    /\ 0 <= f.padding /\ f.padding < f.T.align
                    /\ (m_buffer + f.used_before) % f.T.align = 0 => f.padding = 0
                    /\ f.memory = f.used_before + p
                    /\ arena[b].m_used = f.used_before + p + f.T.size
                    /\ arena'[b].m_used = arena[b].m_used
       /\ Line55Return =>
            \A b \in Builds :
                LET f == Top(arena[b])
                    p == MinPad(f.T.align, m_buffer + f.used_before)
                IN  /\ arena'[b].ret.offset = f.used_before + p
                    /\ ~f.stale =>
                           arena'[b].m_used >= f.used_before + p + f.T.size
                    /\ ~f.stale /\ NoneFromConstructor =>
                           arena'[b].m_used = f.used_before + p + f.T.size]_vars

\* A call has returned an object placed after padding, and m_used is past the
\* end of the object: its constructor allocated from the arena.
C11_Witness ==
    \E b \in Builds : \E T \in Types :
        /\ arena[b].stack = <<>>
        /\ arena[b].ret = Ret("ptr", T.name, arena[b].ret.offset)
        /\ arena[b].ret.offset % T.align = 0
        /\ arena[b].ret.offset > 0
        /\ T.align > 1
        /\ arena[b].m_used > arena[b].ret.offset + T.size
        /\ \E i \in 1..Len(arena[b].live) :
               arena[b].live[i].offset + arena[b].live[i].T.size < arena[b].ret.offset

\* C12: with Capacity 64, the scenario's calls give: int at offset 0, m_used 4;
\* double with padding 4 at offset 8, m_used 16; char50 fails, m_used stays 16;
\* reset, m_used 0; int again at offset 0, m_used 4.
C12_Scenario ==
    Capacity = 64 =>
        \A b \in Builds :
            LET a == arena[b]
                done == a.stack = <<>>
            IN  /\ script = 1 /\ done => a.ret = Ret("ptr", "int", 0) /\ a.m_used = 4
                /\ script = 2 /\ ~done => Top(a).padding = 4
                /\ script = 2 /\ done => a.ret = Ret("ptr", "double", 8) /\ a.m_used = 16
                /\ script = 3 => done /\ a.ret = Ret("null", "char50", -1) /\ a.m_used = 16
                /\ script = 4 => a.m_used = 0
                /\ script = 5 /\ done => a.ret = Ret("ptr", "int", 0) /\ a.m_used = 4

\* The five calls of the scenario have been made and the last has returned.
C12_Witness ==
    /\ Capacity = 64
    /\ script = 5
    /\ \A b \in Builds : arena[b].stack = <<>> /\ arena[b].ret.kind = "ptr"

\* A ledger as the allocations it lists: offset, size and type of each record.
Listed(allocs) ==
    [i \in 1..Len(allocs) |->
        [offset |-> allocs[i].address - m_buffer, size |-> allocs[i].size,
         name |-> allocs[i].type_name]]

\* C13: the DEBUG ledger lists the allocations placed in the current
\* generation, one record each, in order (they are what the ledger of the arena
\* constructed at the last reset lists), and every object returned in the
\* generation has its record {offset, sizeof(T), type}.
C13_LedgerListsGeneration ==
    LET a == arena["debug"]
    IN  /\ Listed(a.m_allocations) = Listed(fresh["debug"].m_allocations)
        /\ \A i \in 1..Len(a.live) :
             Cardinality({k \in 1..Len(a.m_allocations) :
                 Listed(a.m_allocations)[k] =
                     [offset |-> a.live[i].offset, size |-> a.live[i].T.size,
                      name |-> a.live[i].T.name]}) = 1

\* C14: where the caller's code runs, the rows of the memory map of the DEBUG
\* build start at offset 0, each row starts where the row before it ends, and
\* they end with the free-space row [m_used, Capacity) (with the last record's
\* row, at Capacity, when m_used = Capacity).
C14_RowsContiguous ==
    LET a    == arena["debug"]
        rows == display_map(a, "debug", m_buffer, Capacity)
        n    == Len(rows)
    IN  Observable(a) =>
            /\ n > 0
            /\ rows[1].offset = 0
            /\ \A i \in 1..(n - 1) : rows[i + 1].offset = rows[i].offset + rows[i].size
            /\ rows[n].offset + rows[n].size = Capacity
            /\ a.m_used < Capacity => rows[n] = Row(a.m_used, "(Free Space)",
                                                   Capacity - a.m_used)
            /\ \A i \in 1..(n - 1) : rows[i].type # "(Free Space)"

\* C15: the bar of memstat has floor(20 * m_used / Capacity) dashes, from 0 to
\* 20, and 20 minus that many spaces (no wrap of the unsigned subtraction), 20
\* characters in all, and is all dashes exactly when m_used = Capacity.
C15_BarWidth ==
    \A b \in Builds :
        LET a   == arena[b]
            bar == memstat(a, Capacity)
        IN  /\ bar.dashes.hi = 0 /\ bar.spaces.hi = 0
            /\ bar.dashes.lo \in 0..20
            /\ bar.dashes.lo * Capacity <= 20 * a.m_used
            /\ 20 * a.m_used < (bar.dashes.lo + 1) * Capacity
            /\ bar.dashes.lo + bar.spaces.lo = 20
            /\ bar.dashes.lo = 20 <=> a.m_used = Capacity

\* The arena is partly used, 20 * m_used is no multiple of Capacity (the
\* quotient is truncated), and an allocation has just failed.
C15_Witness ==
    \E b \in Builds :
        /\ arena[b].m_used > 0
        /\ (20 * arena[b].m_used) % Capacity # 0
        /\ 2 * ((20 * arena[b].m_used) % Capacity) >= Capacity
        /\ memstat(arena[b], Capacity).dashes.lo > 0
        /\ arena[b].ret.kind = "null"

\* C16: where the caller's code runs, the records of the DEBUG ledger are in
\* increasing offset order without overlap, and the last record ends at m_used.
C16_LedgerOrdered ==
    LET a == arena["debug"]
        l == Listed(a.m_allocations)
    IN  Observable(a) =>
            /\ \A i \in 1..(Len(l) - 1) : l[i + 1].offset >= l[i].offset + l[i].size
            /\ Len(l) > 0 => l[Len(l)].offset + l[Len(l)].size = a.m_used

\* C17 as stated: while T's constructor runs, m_used is past the end of T's object and
\* (DEBUG) the ledger holds its record; an object placed by a call made from
\* the constructor lies past the objects of the calls around it; when a call
\* returns, m_used is past the end of its object; and a constructor that
\* throws leaves m_used and the ledger as they are.
C17_AdvancedBeforeConstructor ==
    /\ [](\A b \in Builds :
            LET a == arena[b]
            IN  /\ \A i \in 1..Len(a.stack) :
                     a.stack[i].pc = "L55" =>
                        /\ a.m_used >= a.stack[i].memory + a.stack[i].T.size
                        /\ DEBUG(b) =>
                             \E k \in 1..Len(a.m_allocations) :
                                 a.m_allocations[k] =
                                     [address |-> m_buffer + a.stack[i].memory,
                                      size |-> a.stack[i].T.size,
                                      type_name |-> a.stack[i].T.name]
                /\ \A i, j \in Placed(a) :
                     i < j => a.stack[j].memory >=
                                  a.stack[i].memory + a.stack[i].T.size)
    /\ [][/\ Line55Return =>
               \A b \in Builds :
                   /\ arena'[b].m_used >= Top(arena[b]).memory + Top(arena[b]).T.size
                   /\ \A i \in 1..Len(arena'[b].live) :
                        arena'[b].m_used >= arena'[b].live[i].offset
                                               + arena'[b].live[i].T.size
          /\ Line55Throw =>
               \A b \in Builds :
                   /\ arena'[b].m_used = arena[b].m_used
                   /\ arena'[b].m_allocations = arena[b].m_allocations]_vars

\* C17, amended: while T's constructor runs (DEBUG) the ledger holds the
\* record of T's object and, until the constructor calls reset, m_used is past
\* the end of the object; an object placed by a call made from the
\* constructor, no reset called before it, lies past the objects of the calls
\* around it; when a call returns, its constructor not having called reset,
\* m_used is past the end of its object; and a constructor that throws leaves
\* m_used and the ledger as they are.
C17_AdvancedUnlessReset ==
    /\ [](\A b \in Builds :
            LET a == arena[b]
            IN  /\ \A i \in 1..Len(a.stack) :
                     a.stack[i].pc = "L55" =>
                        /\ ~a.stack[i].stale =>
                             a.m_used >= a.stack[i].memory + a.stack[i].T.size
                        /\ DEBUG(b) =>
                             \E k \in 1..Len(a.m_allocations) :
                                 a.m_allocations[k] =
                                     [address |-> m_buffer + a.stack[i].memory,
                                      size |-> a.stack[i].T.size,
                                      type_name |-> a.stack[i].T.name]
                /\ \A i, j \in Placed(a) :
                     i < j /\ ~a.stack[i].stale => a.stack[j].memory >=
                                  a.stack[i].memory + a.stack[i].T.size)
    /\ [][/\ Line55Return =>
               \A b \in Builds :
                   /\ ~Top(arena[b]).stale =>
                        arena'[b].m_used >= Top(arena[b]).memory + Top(arena[b]).T.size
                   /\ \A i \in 1..Len(arena'[b].live) :
                        arena'[b].m_used >= arena'[b].live[i].offset
                                               + arena'[b].live[i].T.size
          /\ Line55Throw =>
               \A b \in Builds :
                   /\ arena'[b].m_used = arena[b].m_used
                   /\ arena'[b].m_allocations = arena[b].m_allocations]_vars

\* An object placed by a call made from a constructor has been returned to the
\* constructor, which then threw: the outer object is not live, the inner one
\* is, and m_used and the ledger still cover both.
C17_Witness ==
    LET a == arena["debug"]
    IN  /\ a.stack = <<>>
        /\ a.ret.kind = "exc"
        /\ Len(a.live) = 1
        /\ Len(a.m_allocations) = 2
        /\ a.live[1].offset = Listed(a.m_allocations)[2].offset
        /\ a.live[1].offset > 0
        /\ a.m_used = a.live[1].offset + a.live[1].T.size

====
